---- MODULE Spec2Model ----
(***************************************************************************)
(* A model of the `dangerous` parsing core: the Input view over a borrowed *)
(* byte buffer (src/input/mod.rs), the context stacks attached to errors   *)
(* (src/error/context.rs), the line writer of the diagnostic renderer      *)
(* (src/display/writer.rs) and the span predicates they rest on.           *)
(*                                                                         *)
(* Memory is modelled by addresses: a slice is a (ptr, len) pair and the   *)
(* bytes it shows are read from the allocation that holds the address.     *)
(* Two allocations, A and B, hold the same content at different addresses. *)
(* Option<T> is a sequence of length 0 (None) or 1 (Some).                 *)
(***************************************************************************)
EXTENDS Integers, Sequences, FiniteSets, TLC

VARIABLES
    data,       \* the bytes stored in allocation A, and, as a copy, in B
    addrA,      \* address of the first byte of allocation A
    addrB,      \* address of the first byte of allocation B
    inp,        \* the Input the caller holds
    owner,      \* the allocation inp was sliced from, "A" or "B"
    res,        \* what the caller's last operation returned
    rootStack,  \* a RootContextStack under construction
    fullStack,  \* a FullContextStack under construction
    calls,      \* the from_root / push calls made so far
    walked,     \* what the last walk delivered to its visitor
    writer,     \* an InputWriter and the line it has written
    shown       \* the call that wrote the line

vars == <<data, addrA, addrB, inp, owner, res, rootStack, fullStack, calls, walked,
          writer, shown>>
inputVars == <<data, addrA, addrB, inp, owner, res>>
contextVars == <<rootStack, fullStack, calls, walked>>
renderVars == <<writer, shown>>

---------------------------------------------------------------------------
(* Bounds of the model *)

\* longest buffer of the Input specification
MaxLen == 3
\* longest buffer of the UTF-8 decoding specification
MaxStrLen == 4
\* most frames pushed onto one context stack
MaxPush == 3
\* longest buffer handed to the renderer
MaxRenderLen == 4

\* bytes the buffers of the Input specification are made of
InputBytes == {97, 226}
\* bytes the buffers of the decoding specification are made of: ASCII 'A',
\* continuation bytes 0x80 and 0xA0, the leading bytes 0xC2, 0xE0, 0xED and
\* 0xF0, and 0xFF, which no encoding contains
Utf8Bytes == {65, 128, 160, 194, 224, 237, 240, 255}

None == <<>>
Some(x) == <<x>>

RECURSIVE SeqsUpTo(_, _)
SeqsUpTo(S, n) ==
    IF n = 0 THEN {<<>>}
    ELSE LET shorter == SeqsUpTo(S, n - 1)
         IN  shorter \cup {Append(s, b) : s \in {t \in shorter : Len(t) = n - 1}, b \in S}

---------------------------------------------------------------------------
(* Memory and slices *)

Slice(ptr, length) == [ptr |-> ptr, len |-> length]

\* the byte stored at an address of allocation A or B
MemAt(a) ==
    IF a >= addrA /\ a < addrA + Len(data) THEN data[a - addrA + 1]
    ELSE data[a - addrB + 1]

\* the bytes a slice shows
BytesOf(s) == [i \in 1..s.len |-> MemAt(s.ptr + i - 1)]

\* &s[from..to], offsets counted from 0
SubSlice(s, from, to) == Slice(s.ptr + from, to - from)

bufferA == Slice(addrA, Len(data))
bufferB == Slice(addrB, Len(data))

slice_ptr_range(s) == [start |-> s.ptr, end |-> s.ptr + s.len]

is_sub_slice(parent, sub) ==
    LET parent_bounds == slice_ptr_range(parent)
        sub_bounds == slice_ptr_range(sub)
    IN  parent_bounds.start <= sub_bounds.start /\ parent_bounds.end >= sub_bounds.end

---------------------------------------------------------------------------
(* Input: construction, flag and span queries *)

Input_new(bytes, isBound) == [bytes |-> bytes, bound |-> isBound]

input(bytes) == Input_new(bytes, FALSE)

as_dangerous(self) == self.bytes

len(self) == as_dangerous(self).len

is_empty(self) == len(self) = 0

is_within_by_content(self, parent) ==
    \E at \in 0..(len(parent) - len(self)) :
        BytesOf(SubSlice(as_dangerous(parent), at, at + len(self)))
            = BytesOf(as_dangerous(self))
is_within(self, parent) == is_sub_slice(as_dangerous(parent), as_dangerous(self))

bound_keeps_flag(self) == Input_new(as_dangerous(self), self.bound)
bound(self) == Input_new(as_dangerous(self), TRUE)

clone(self) == [bytes |-> self.bytes, bound |-> self.bound]

span_of_len(self, parent) ==
    IF is_within(self, parent)
    THEN LET parent_bounds == slice_ptr_range(as_dangerous(parent))
             sub_bounds == slice_ptr_range(as_dangerous(self))
             start_offset == sub_bounds.start - parent_bounds.start
             end_offset == sub_bounds.end - sub_bounds.start
         IN  Some([start |-> start_offset, end |-> end_offset])
    ELSE None
span_of(self, parent) ==
    IF is_within(self, parent)
    THEN LET parent_bounds == slice_ptr_range(as_dangerous(parent))
             sub_bounds == slice_ptr_range(as_dangerous(self))
             start_offset == sub_bounds.start - parent_bounds.start
             end_offset == sub_bounds.end - parent_bounds.start
         IN  Some([start |-> start_offset, end |-> end_offset])
    ELSE None

non_empty_span_of(self, parent) ==
    IF is_empty(self) THEN None ELSE span_of(self, parent)

---------------------------------------------------------------------------
(* Contexts and the two terminal errors *)

\* the sealed { operation, expected } context
ExpectedContext(operation, expected) == [operation |-> operation, expected |-> Some(expected)]

\* the crate's operation-only context
OperationContext(operation) == [operation |-> operation, expected |-> None]

\* a plain description used as a context
StrContext(expected) == [operation |-> "read", expected |-> Some(expected)]

ExpectedLength(min, max, span, from, context) ==
    [kind |-> "ExpectedLength", min |-> min, max |-> max, span |-> span,
     input |-> from, context |-> context, retry_requirement |-> None,
     frames |-> <<>>]

ExpectedValid(span, from, context, retry_requirement) ==
    [kind |-> "ExpectedValid", min |-> 0, max |-> None, span |-> span,
     input |-> from, context |-> context, retry_requirement |-> retry_requirement,
     frames |-> <<>>]

\* the frame of an enclosing context call, added to an error on its way out
from_context(err, context) == [err EXCEPT !.frames = Append(@, context)]

\* Some(n): n more bytes may let the operation succeed; None: fatal
to_retry_requirement(err) ==
    IF err.input.bound THEN None
    ELSE IF err.kind = "ExpectedLength"
         THEN IF err.min > err.span.len THEN Some(err.min - err.span.len) ELSE None
         ELSE err.retry_requirement

is_fatal(err) == to_retry_requirement(err) = None

Ok(value, rest) == [tag |-> "Ok", value |-> Some(value), rest |-> rest, err |-> None]
Err(err) == [tag |-> "Err", value |-> None, rest |-> None, err |-> Some(err)]

---------------------------------------------------------------------------
(* Reader and the routines handed to it *)

Reader_new(from) == [input |-> from]

at_end(r) == is_empty(r.input)

\* the Input left to read; the reader keeps the empty end of it
take_remaining(r) ==
    [taken |-> r.input,
     r |-> [input |-> Input_new(SubSlice(as_dangerous(r.input), len(r.input), len(r.input)),
                                r.input.bound)]]

\* Reader::take(n): the next n bytes, or an insufficient-bytes error
take(r, n) ==
    IF n > len(r.input)
    THEN [tag |-> "Err", value |-> None, r |-> r,
          err |-> Some(ExpectedLength(n, None, as_dangerous(r.input), clone(r.input),
                                      ExpectedContext("take", "enough input")))]
    ELSE [tag |-> "Ok", value |-> Some(SubSlice(as_dangerous(r.input), 0, n)),
          r |-> [input |-> Input_new(SubSlice(as_dangerous(r.input), n, len(r.input)),
                                     r.input.bound)],
          err |-> None]

\* A routine takes f.take bytes and then either returns them or rejects them.
Routines == [take : 0..(MaxLen + 1), fail : BOOLEAN]
InfallibleRoutines(n) == [take : 0..n, fail : {FALSE}]

RunRoutine(r, f) ==
    LET got == take(r, f.take)
    IN  IF got.tag = "Ok" /\ f.fail
        THEN [tag |-> "Err", value |-> None, r |-> got.r,
              err |-> Some(ExpectedValid(got.value[1], clone(r.input),
                                         ExpectedContext("validate", "valid value"),
                                         None))]
        ELSE got

\* Reader::context: run f; an error leaves with the frame attached
Reader_context(r, context, f) ==
    LET out == RunRoutine(r, f)
    IN  IF out.tag = "Err"
        THEN [out EXCEPT !.err = Some(from_context(out.err[1], context))]
        ELSE out

---------------------------------------------------------------------------
(* Input: reading *)

read_all_accepts_trailing(self, f) ==
    LET r == Reader_new(clone(self))
        out == Reader_context(r, OperationContext("read all"), f)
    IN  IF out.tag = "Ok" THEN Ok(out.value[1], None) ELSE Err(out.err[1])
read_all_masks_error(self, f) ==
    LET r == Reader_new(clone(self))
        out == Reader_context(r, OperationContext("read all"), f)
    IN  IF out.tag = "Ok" /\ at_end(out.r) THEN Ok(out.value[1], None)
        ELSE IF ~at_end(out.r)
             THEN Err(ExpectedLength(0, Some(0),
                                     as_dangerous(take_remaining(out.r).taken), self,
                                     ExpectedContext("read all", "no trailing input")))
             ELSE Err(out.err[1])
read_all(self, f) ==
    LET r == Reader_new(clone(self))
        out == Reader_context(r, OperationContext("read all"), f)
    IN  IF out.tag = "Ok" /\ at_end(out.r) THEN Ok(out.value[1], None)
        ELSE IF out.tag = "Ok"
             THEN Err(ExpectedLength(0, Some(0),
                                     as_dangerous(take_remaining(out.r).taken), self,
                                     ExpectedContext("read all", "no trailing input")))
             ELSE Err(out.err[1])

read_partial_returns_whole(self, f) ==
    LET r == Reader_new(self)
        out == Reader_context(r, OperationContext("read partial"), f)
    IN  IF out.tag = "Ok" THEN Ok(out.value[1], Some(take_remaining(r).taken))
        ELSE Err(out.err[1])
read_partial(self, f) ==
    LET r == Reader_new(self)
        out == Reader_context(r, OperationContext("read partial"), f)
    IN  IF out.tag = "Ok" THEN Ok(out.value[1], Some(take_remaining(out.r).taken))
        ELSE Err(out.err[1])

read_infallible(self, f) ==
    LET r == Reader_new(self)
        out == RunRoutine(r, f)
    IN  Ok(out.value[1], Some(take_remaining(out.r).taken))

---------------------------------------------------------------------------
(* UTF-8 decoding *)

\* the number of bytes of the code point a first byte announces; 0 for a byte
\* that starts none
utf8_char_width(b) ==
    IF b < 128 THEN 1
    ELSE IF b >= 194 /\ b <= 223 THEN 2
    ELSE IF b >= 224 /\ b <= 239 THEN 3
    ELSE IF b >= 240 /\ b <= 244 THEN 4
    ELSE 0

char_len(b) == utf8_char_width(b)

\* a continuation byte, 0x80..0xBF
IsContinuation(b) == b >= 128 /\ b <= 191

\* the second byte a three-byte leading byte admits
SecondOfThree(first, second) ==
    \/ first = 224 /\ second >= 160 /\ second <= 191
    \/ first >= 225 /\ first <= 236 /\ IsContinuation(second)
    \/ first = 237 /\ second >= 128 /\ second <= 159
    \/ first >= 238 /\ first <= 239 /\ IsContinuation(second)

\* the second byte a four-byte leading byte admits
SecondOfFour(first, second) ==
    \/ first = 240 /\ second >= 144 /\ second <= 191
    \/ first >= 241 /\ first <= 243 /\ IsContinuation(second)
    \/ first = 244 /\ second >= 128 /\ second <= 143

Utf8Ok == [ok |-> TRUE, valid_up_to |-> 0, error_len |-> None]
Utf8Error(valid_up_to, error_len) ==
    [ok |-> FALSE, valid_up_to |-> valid_up_to, error_len |-> error_len]

\* the validation loop of core::str::from_utf8, from byte offset index
RECURSIVE run_utf8_validation(_, _)
run_utf8_validation(v, index) ==
    IF index >= Len(v) THEN Utf8Ok
    ELSE LET first == v[index + 1]
             w == utf8_char_width(first)
             has(k) == index + k < Len(v)
             at(k) == v[index + k + 1]
             err(l) == Utf8Error(index, l)
         IN  IF first < 128 THEN run_utf8_validation(v, index + 1)
             ELSE IF w = 2
                  THEN IF ~has(1) THEN err(None)
                       ELSE IF ~IsContinuation(at(1)) THEN err(Some(1))
                       ELSE run_utf8_validation(v, index + 2)
             ELSE IF w = 3
                  THEN IF ~has(1) THEN err(None)
                       ELSE IF ~SecondOfThree(first, at(1)) THEN err(Some(1))
                       ELSE IF ~has(2) THEN err(None)
                       ELSE IF ~IsContinuation(at(2)) THEN err(Some(2))
                       ELSE run_utf8_validation(v, index + 3)
             ELSE IF w = 4
                  THEN IF ~has(1) THEN err(None)
                       ELSE IF ~SecondOfFour(first, at(1)) THEN err(Some(1))
                       ELSE IF ~has(2) THEN err(None)
                       ELSE IF ~IsContinuation(at(2)) THEN err(Some(2))
                       ELSE IF ~has(3) THEN err(None)
                       ELSE IF ~IsContinuation(at(3)) THEN err(Some(3))
                       ELSE run_utf8_validation(v, index + 4)
             ELSE err(Some(1))

from_utf8(v) == run_utf8_validation(v, 0)

to_dangerous_non_empty(self) ==
    IF is_empty(self)
    THEN Err(ExpectedLength(1, None, as_dangerous(self), clone(self),
                            ExpectedContext("convert input to non-empty slice",
                                            "non-empty input")))
    ELSE Ok(as_dangerous(self), None)

to_dangerous_str_first_byte(self) ==
    LET bytes == as_dangerous(self)
        utf8 == from_utf8(BytesOf(bytes))
    IN  IF utf8.ok THEN Ok(bytes, None)
        ELSE IF utf8.error_len = None
             THEN LET invalid == SubSlice(bytes, utf8.valid_up_to, bytes.len)
                  IN  Err(ExpectedLength(char_len(MemAt(bytes.ptr)), None, invalid,
                                         clone(self),
                                         ExpectedContext("convert input to str",
                                                         "complete utf-8 code point")))
             ELSE LET error_start == utf8.valid_up_to
                      error_end == error_start + utf8.error_len[1]
                  IN  Err(ExpectedValid(SubSlice(bytes, error_start, error_end),
                                        clone(self),
                                        ExpectedContext("convert input to str",
                                                        "utf-8 code point"),
                                        None))
to_dangerous_str_one_byte_span(self) ==
    LET bytes == as_dangerous(self)
        utf8 == from_utf8(BytesOf(bytes))
    IN  IF utf8.ok THEN Ok(bytes, None)
        ELSE IF utf8.error_len = None
             THEN LET invalid == SubSlice(bytes, utf8.valid_up_to, bytes.len)
                  IN  Err(ExpectedLength(char_len(MemAt(invalid.ptr)), None, invalid,
                                         clone(self),
                                         ExpectedContext("convert input to str",
                                                         "complete utf-8 code point")))
             ELSE LET error_start == utf8.valid_up_to
                      error_end == error_start + 1
                  IN  Err(ExpectedValid(SubSlice(bytes, error_start, error_end),
                                        clone(self),
                                        ExpectedContext("convert input to str",
                                                        "utf-8 code point"),
                                        None))
to_dangerous_str(self) ==
    LET bytes == as_dangerous(self)
        utf8 == from_utf8(BytesOf(bytes))
    IN  IF utf8.ok THEN Ok(bytes, None)
        ELSE IF utf8.error_len = None
             THEN LET invalid == SubSlice(bytes, utf8.valid_up_to, bytes.len)
                  IN  Err(ExpectedLength(char_len(MemAt(invalid.ptr)), None, invalid,
                                         clone(self),
                                         ExpectedContext("convert input to str",
                                                         "complete utf-8 code point")))
             ELSE LET error_start == utf8.valid_up_to
                      error_end == error_start + utf8.error_len[1]
                  IN  Err(ExpectedValid(SubSlice(bytes, error_start, error_end),
                                        clone(self),
                                        ExpectedContext("convert input to str",
                                                        "utf-8 code point"),
                                        None))

to_dangerous_non_empty_str(self) ==
    IF is_empty(self)
    THEN Err(ExpectedLength(1, None, as_dangerous(self), clone(self),
                            ExpectedContext("convert input to non-empty str",
                                            "non empty input")))
    ELSE to_dangerous_str(self)

---------------------------------------------------------------------------
(* Context stacks *)

\* A visitor continues until the call whose index is stopAt; 0: it never stops.
Visitors == [stopAt : 0..(MaxPush + 2)]
Visit(f, index, context) == index /= f.stopAt

RootContextStack_from_root(context) == [context |-> context]

RootContextStack_push_replaces(self, context) == [context |-> context]
RootContextStack_push(self, context) == self

RootContextStack_root(self) == self.context

RootContextStack_walk(self, f) ==
    [visits |-> <<<<1, self.context>>>>, ret |-> Visit(f, 1, self.context)]

FullContextStack_from_root(context) == [root |-> context, stack |-> <<>>]

FullContextStack_push(self, context) == [self EXCEPT !.stack = Append(@, context)]

FullContextStack_root(self) == self.root

\* the loop of FullContextStack::walk, about to make call i
RECURSIVE FullContextStack_walk_from(_, _, _, _)
FullContextStack_walk_from(self, f, i, visits) ==
    IF i > Len(self.stack)
    THEN [visits |-> Append(visits, <<i, self.root>>), ret |-> Visit(f, i, self.root)]
    ELSE LET item == self.stack[Len(self.stack) - i + 1]
         IN  IF ~Visit(f, i, item)
             THEN [visits |-> Append(visits, <<i, item>>), ret |-> FALSE]
             ELSE FullContextStack_walk_from(self, f, i + 1, Append(visits, <<i, item>>))

RECURSIVE FullContextStack_walk_oldest_first(_, _, _, _)
FullContextStack_walk_oldest_first(self, f, i, visits) ==
    IF i > Len(self.stack)
    THEN [visits |-> Append(visits, <<i, self.root>>), ret |-> Visit(f, i, self.root)]
    ELSE LET item == self.stack[i]
         IN  IF ~Visit(f, i, item)
             THEN [visits |-> Append(visits, <<i, item>>), ret |-> FALSE]
             ELSE FullContextStack_walk_oldest_first(self, f, i + 1,
                                                     Append(visits, <<i, item>>))

FullContextStack_walk_reversed(self, f) == FullContextStack_walk_oldest_first(self, f, 1, <<>>)
FullContextStack_walk(self, f) == FullContextStack_walk_from(self, f, 1, <<>>)

---------------------------------------------------------------------------
(* The caller of Input: state and operations *)

NoRoutine == [take |-> 0, fail |-> FALSE]
NoOut == [tag |-> "None", value |-> None, rest |-> None, err |-> None]
NoLoc == [parent |-> None, parentOwner |-> "", within |-> FALSE, span |-> None,
          non_empty_span |-> None]

\* the record of an operation: the Input it was applied to, the routine it
\* was given, what it returned and, for a span query, what the query found
Outcome(op, self, f, out, loc) ==
    [op |-> op, self |-> self, f |-> f, out |-> out, loc |-> loc]

Buffer(which) == IF which = "A" THEN bufferA ELSE bufferB

IdleInput == input(Slice(0, 0))

InputIdle ==
    /\ data = <<>>
    /\ addrA = 0
    /\ addrB = 0
    /\ inp = IdleInput
    /\ owner = "A"
    /\ res = Outcome("input", IdleInput, NoRoutine, NoOut, NoLoc)

Bound ==
    /\ inp' = bound(inp)
    /\ res' = Outcome("bound", inp, NoRoutine, NoOut, NoLoc)
    /\ UNCHANGED <<data, addrA, addrB, owner>>

Clone ==
    /\ inp' = clone(inp)
    /\ res' = Outcome("clone", inp, NoRoutine, NoOut, NoLoc)
    /\ UNCHANGED <<data, addrA, addrB, owner>>

\* is_within, span_of and non_empty_span_of against a whole buffer
Locate ==
    \E which \in {"A", "B"} :
        LET parent == input(Buffer(which))
        IN  /\ res' = Outcome("span_of", inp, NoRoutine, NoOut,
                              [parent |-> Some(parent), parentOwner |-> which,
                               within |-> is_within(inp, parent),
                               span |-> span_of(inp, parent),
                               non_empty_span |-> non_empty_span_of(inp, parent)])
            /\ UNCHANGED <<data, addrA, addrB, inp, owner>>

\* the caller keeps a clone of the Input it hands to read_all
ReadAll ==
    \E f \in Routines :
        /\ res' = Outcome("read_all", inp, f, read_all(inp, f), NoLoc)
        /\ UNCHANGED <<data, addrA, addrB, inp, owner>>

\* the caller goes on with the leftover Input
ReadPartial ==
    \E f \in Routines :
        LET out == read_partial(inp, f)
        IN  /\ res' = Outcome("read_partial", inp, f, out, NoLoc)
            /\ inp' = IF out.tag = "Ok" THEN out.rest[1] ELSE inp
            /\ UNCHANGED <<data, addrA, addrB, owner>>

ReadInfallible ==
    \E f \in InfallibleRoutines(len(inp)) :
        LET out == read_infallible(inp, f)
        IN  /\ res' = Outcome("read_infallible", inp, f, out, NoLoc)
            /\ inp' = out.rest[1]
            /\ UNCHANGED <<data, addrA, addrB, owner>>

ToDangerousNonEmpty ==
    /\ res' = Outcome("to_dangerous_non_empty", inp, NoRoutine,
                      to_dangerous_non_empty(inp), NoLoc)
    /\ UNCHANGED <<data, addrA, addrB, inp, owner>>

ToDangerousStr ==
    /\ res' = Outcome("to_dangerous_str", inp, NoRoutine, to_dangerous_str(inp), NoLoc)
    /\ UNCHANGED <<data, addrA, addrB, inp, owner>>

ToDangerousNonEmptyStr ==
    /\ res' = Outcome("to_dangerous_non_empty_str", inp, NoRoutine,
                      to_dangerous_non_empty_str(inp), NoLoc)
    /\ UNCHANGED <<data, addrA, addrB, inp, owner>>

---------------------------------------------------------------------------
(* The builder and the walker of a context stack: state and operations *)

\* root contexts of the crate's own errors
Roots == {ExpectedContext("take", "enough input"),
          ExpectedContext("convert input to str", "utf-8 code point")}

\* contexts pushed by enclosing calls
Contexts == {OperationContext("read all"), StrContext("header"),
             ExpectedContext("read length", "u8")}

NoWalk == [policy |-> "none", f |-> [stopAt |-> 0], visits |-> <<>>, ret |-> TRUE]

ContextIdle ==
    /\ rootStack = RootContextStack_from_root(ExpectedContext("take", "enough input"))
    /\ fullStack = FullContextStack_from_root(ExpectedContext("take", "enough input"))
    /\ calls = [root |-> ExpectedContext("take", "enough input"), pushed |-> <<>>]
    /\ walked = NoWalk

\* from_root: both policies are built from the same root
FromRoot ==
    \E context \in Roots :
        /\ rootStack' = RootContextStack_from_root(context)
        /\ fullStack' = FullContextStack_from_root(context)
        /\ calls' = [root |-> context, pushed |-> <<>>]
        /\ walked' = NoWalk

\* push: an enclosing context call adds its frame to both stacks
Push ==
    \E context \in Contexts :
        /\ Len(calls.pushed) < MaxPush
        /\ rootStack' = RootContextStack_push(rootStack, context)
        /\ fullStack' = FullContextStack_push(fullStack, context)
        /\ calls' = [calls EXCEPT !.pushed = Append(@, context)]
        /\ walked' = NoWalk

WalkRoot ==
    \E f \in Visitors :
        LET w == RootContextStack_walk(rootStack, f)
        IN  /\ walked' = [policy |-> "root", f |-> f, visits |-> w.visits, ret |-> w.ret]
            /\ UNCHANGED <<rootStack, fullStack, calls>>

WalkFull ==
    \E f \in Visitors :
        LET w == FullContextStack_walk(fullStack, f)
        IN  /\ walked' = [policy |-> "full", f |-> f, visits |-> w.visits, ret |-> w.ret]
            /\ UNCHANGED <<rootStack, fullStack, calls>>

---------------------------------------------------------------------------
(* The diagnostic renderer: the span predicates of src/display/writer.rs *)

has_more_before(bytes, full) ==
    LET section_bounds == slice_ptr_range(bytes)
        full_bounds == slice_ptr_range(full)
    IN  section_bounds.start > full_bounds.start

has_more_after(bytes, full) ==
    LET section_bounds == slice_ptr_range(bytes)
        full_bounds == slice_ptr_range(full)
    IN  section_bounds.end < full_bounds.end

is_span_start_within_section(bytes, span) ==
    /\ span /= None
    /\ LET section_bounds == slice_ptr_range(bytes)
           span_bounds == slice_ptr_range(span[1])
       IN  section_bounds.start <= span_bounds.start
              /\ section_bounds.end >= span_bounds.start

is_section_start_within_span(bytes, span) ==
    /\ span /= None
    /\ LET section_bounds == slice_ptr_range(bytes)
           span_bounds == slice_ptr_range(span[1])
       IN  section_bounds.start >= span_bounds.start
              /\ section_bounds.start <= span_bounds.end

is_span_overlapping_end(bytes, span) ==
    /\ span /= None
    /\ LET section_bounds == slice_ptr_range(bytes)
           span_bounds == slice_ptr_range(span[1])
       IN  section_bounds.end < span_bounds.end

is_span_overlapping_start(bytes, span) ==
    /\ span /= None
    /\ LET section_bounds == slice_ptr_range(bytes)
           span_bounds == slice_ptr_range(span[1])
       IN  section_bounds.start > span_bounds.start

is_span_pointing_to_start_of_any_span(bytes, span) ==
    /\ span /= None
    /\ slice_ptr_range(bytes).start = slice_ptr_range(span[1]).start
is_span_pointing_to_start(bytes, span) ==
    /\ span /= None
    /\ LET section_bounds == slice_ptr_range(bytes)
           span_bounds == slice_ptr_range(span[1])
       IN  span[1].len = 0 /\ section_bounds.start = span_bounds.start

is_span_pointing_to_end(bytes, span) ==
    /\ span /= None
    /\ LET section_bounds == slice_ptr_range(bytes)
           span_bounds == slice_ptr_range(span[1])
       IN  span[1].len = 0 /\ section_bounds.end = span_bounds.end

---------------------------------------------------------------------------
(* InputWriter: the line is the sequence of the code points written to w, *)
(* a sink that accepts every write                                        *)

InputWriter_new(w, full, span, underline) ==
    [w |-> w, underline |-> underline, full |-> full, span |-> span]

\* self.w.write_char(c)
w_write_char(self, c) == [self EXCEPT !.w = Append(@, c)]

RECURSIVE write_char_len(_, _, _)
write_char_len(self, c, length) ==
    IF length = 0 THEN self
    ELSE write_char_len(w_write_char(self, c), c, length - 1)

\* ' '
write_space(self, length) == write_char_len(self, 32, length)

\* '^'
write_underline(self, length) == write_char_len(self, 94, length)

write_delim(self, delim, highlighted) ==
    IF self.underline
    THEN IF highlighted THEN write_underline(self, 1) ELSE write_space(self, 1)
    ELSE w_write_char(self, delim)

\* ".." in the normal line
write_more(self, highlight) ==
    IF self.underline
    THEN IF highlight THEN write_underline(self, 2) ELSE write_space(self, 2)
    ELSE w_write_char(w_write_char(self, 46), 46)

---------------------------------------------------------------------------
(* InputWriter: bytes *)

\* u8::is_ascii_graphic: U+0021 '!' ..= U+007E '~'
is_ascii_graphic(byte) == byte >= 33 /\ byte <= 126

\* one digit of {:x}: '0'..'9', 'a'..'f'
LowerHexDigit(d) == IF d < 10 THEN 48 + d ELSE 87 + d

\* write!(self.w, "{:0>2x}", byte)
write_lower_hex(self, byte) ==
    w_write_char(w_write_char(self, LowerHexDigit(byte \div 16)),
                 LowerHexDigit(byte % 16))

write_byte(self, byte, remaining, show_ascii) ==
    IF show_ascii /\ is_ascii_graphic(byte)
    THEN IF self.underline
         THEN IF is_section_start_within_span(remaining, self.span)
              THEN write_underline(self, 3)
              ELSE write_space(self, 3)
         ELSE w_write_char(w_write_char(w_write_char(self, 39), byte), 39)
    ELSE IF self.underline
         THEN IF is_section_start_within_span(remaining, self.span)
              THEN write_underline(self, 2)
              ELSE write_space(self, 2)
         ELSE write_lower_hex(self, byte)

\* the loop over iter.enumerate(): iter has already yielded bytes[0], so the
\* pair (i, byte) is (i, bytes[i + 1]) and the byte is written with &bytes[i..]
RECURSIVE write_bytes_enumerate(_, _, _, _)
write_bytes_enumerate(self, bytes, i, show_ascii) ==
    IF i + 1 >= bytes.len THEN self
    ELSE write_bytes_enumerate(
             write_byte(write_space(self, 1), MemAt(bytes.ptr + i + 1),
                        SubSlice(bytes, i, bytes.len), show_ascii),
             bytes, i + 1, show_ascii)

write_bytes(self, bytes, show_ascii) ==
    LET first == IF bytes.len = 0 THEN self
                 ELSE write_byte(self, MemAt(bytes.ptr), bytes, show_ascii)
    IN  write_bytes_enumerate(first, bytes, 0, show_ascii)

\* '[' and the marker of bytes hidden before the section
write_bytes_open(self, bytes) ==
    IF has_more_before(bytes, self.full)
    THEN write_space(
             write_more(write_delim(self, 91, FALSE),
                        is_span_overlapping_start(bytes, self.span)),
             1)
    ELSE write_delim(self, 91, is_span_pointing_to_start(bytes, self.span))

\* the marker of bytes hidden after the section and ']'
write_bytes_close(self, bytes) ==
    IF has_more_after(bytes, self.full)
    THEN write_delim(
             write_more(write_space(self, 1),
                        is_span_overlapping_end(bytes, self.span)),
             93, FALSE)
    ELSE write_delim(self, 93, is_span_pointing_to_end(bytes, self.span))

write_bytes_side(self, side, show_ascii) ==
    write_bytes_close(write_bytes(write_bytes_open(self, side), side, show_ascii), side)

write_bytes_sides(self, left, right, show_ascii) ==
    LET opened == write_bytes(write_bytes_open(self, left), left, show_ascii)
        middle == write_space(
                      write_more(write_space(opened, 1),
                                 is_span_overlapping_end(left, self.span)),
                      1)
    IN  write_bytes_close(write_bytes(middle, right, show_ascii), right)

---------------------------------------------------------------------------
(* InputWriter: strings. A &str is the slice of its bytes, which starts   *)
(* and ends on scalar boundaries                                          *)

\* the scalar s.chars() yields at a byte offset of s
chars_next(s, offset) ==
    LET at == s.ptr + offset
        first == MemAt(at)
        width == utf8_char_width(first)
    IN  IF width = 2 THEN (first - 192) * 64 + (MemAt(at + 1) - 128)
        ELSE IF width = 3
             THEN (first - 224) * 4096 + (MemAt(at + 1) - 128) * 64
                      + (MemAt(at + 2) - 128)
        ELSE IF width = 4
             THEN (first - 240) * 262144 + (MemAt(at + 1) - 128) * 4096
                      + (MemAt(at + 2) - 128) * 64 + (MemAt(at + 3) - 128)
        ELSE first

\* char::len_utf8
len_utf8(c) == IF c < 128 THEN 1 ELSE IF c < 2048 THEN 2 ELSE IF c < 65536 THEN 3 ELSE 4

\* East Asian Wide: the CJK unified ideographs
IsWide(c) == c >= 19968 /\ c <= 40959

\* East Asian Ambiguous: U+00A1, narrow unless the CJK policy is on
IsAmbiguous(c) == c = 161

\* Element::unicode(c, cjk): the columns a scalar takes and its encoded length
Element_unicode(c, cjk) ==
    [display_cost |-> IF IsWide(c) \/ (cjk /\ IsAmbiguous(c)) THEN 2 ELSE 1,
     len_utf8 |-> len_utf8(c)]

\* underline mode, the span starts within the section: one test per scalar
RECURSIVE write_str_each(_, _, _, _)
write_str_each(self, s, offset, cjk) ==
    IF offset >= s.len THEN self
    ELSE LET element == Element_unicode(chars_next(s, offset), cjk)
             marked == IF is_section_start_within_span(SubSlice(s, offset, s.len),
                                                       self.span)
                       THEN write_underline(self, element.display_cost)
                       ELSE write_space(self, element.display_cost)
         IN  write_str_each(marked, s, offset + element.len_utf8, cjk)

\* underline mode, otherwise: blanks only
RECURSIVE write_str_blank(_, _, _, _)
write_str_blank(self, s, offset, cjk) ==
    IF offset >= s.len THEN self
    ELSE LET c == chars_next(s, offset)
             element == Element_unicode(c, cjk)
         IN  write_str_blank(write_space(self, element.display_cost), s,
                             offset + len_utf8(c), cjk)

\* normal mode: the scalars themselves, '"' written as \"
RECURSIVE write_str_literal(_, _, _)
write_str_literal(self, s, offset) ==
    IF offset >= s.len THEN self
    ELSE LET c == chars_next(s, offset)
             written == IF c = 34 THEN w_write_char(w_write_char(self, 92), 34)
                        ELSE w_write_char(self, c)
         IN  write_str_literal(written, s, offset + len_utf8(c))

write_str(self, s, cjk) ==
    IF self.underline
    THEN IF is_span_start_within_section(s, self.span)
         THEN write_str_each(self, s, 0, cjk)
         ELSE write_str_blank(self, s, 0, cjk)
    ELSE write_str_literal(self, s, 0)

\* the marker of text hidden before the section and '"'
write_str_open(self, s) ==
    IF has_more_before(s, self.full)
    THEN write_delim(
             write_space(write_more(self, is_span_overlapping_start(s, self.span)), 1),
             34, FALSE)
    ELSE write_delim(self, 34, is_span_pointing_to_start(s, self.span))

\* '"' and the marker of text hidden after the section
write_str_close(self, s) ==
    IF has_more_after(s, self.full)
    THEN write_more(write_space(write_delim(self, 34, FALSE), 1),
                    is_span_overlapping_end(s, self.span))
    ELSE write_delim(self, 34, is_span_pointing_to_end(s, self.span))

write_str_side(self, side, cjk) ==
    write_str_close(write_str(write_str_open(self, side), side, cjk), side)

write_str_sides(self, left, right, cjk) ==
    LET opened == write_delim(write_str(write_str_open(self, left), left, cjk),
                              34, FALSE)
        middle == write_space(
                      write_more(write_space(opened, 1),
                                 is_span_overlapping_end(left, self.span)),
                      1)
        reopened == write_delim(middle, 34, FALSE)
    IN  write_str_close(write_str(reopened, right, cjk), right)

---------------------------------------------------------------------------
(* The caller of the renderer: state and operations *)

\* encodings of the scalars a rendered text continues with after `at` bytes:
\* the letter of that place ('a' first, then 'b', ...), U+00A1 or U+4E2D
RenderScalars(at) == {<<97 + at>>, <<194, 161>>, <<228, 184, 173>>}

\* the texts of at most n bytes
RECURSIVE TextsUpTo(_)
TextsUpTo(n) ==
    IF n = 0 THEN {<<>>}
    ELSE LET shorter == TextsUpTo(n - 1)
             longer == UNION {{t \o e : e \in RenderScalars(Len(t))} : t \in shorter}
         IN  shorter \cup {t \in longer : Len(t) <= n}

\* str::is_char_boundary of the rendered buffer
is_char_boundary(index) ==
    \/ index = 0
    \/ index = Len(data)
    \/ (index < Len(data) /\ ~(data[index + 1] >= 128 /\ data[index + 1] < 192))

NoCall == [op |-> "new", sides |-> <<>>, flag |-> FALSE]

RenderIdle ==
    /\ writer = InputWriter_new(<<>>, Slice(0, 0), None, FALSE)
    /\ shown = NoCall

\* &full[from..to] for every from <= to
Sections ==
    {SubSlice(writer.full, range[1], range[2]) :
        range \in {r \in (0..writer.full.len) \X (0..writer.full.len) : r[1] <= r[2]}}

\* the sections that are a &str
StrSections ==
    {s \in Sections : /\ is_char_boundary(s.ptr - writer.full.ptr)
                      /\ is_char_boundary(s.ptr - writer.full.ptr + s.len)}

\* a writer writes one line
WriteBytesSide ==
    /\ shown.op = "new"
    /\ \E side \in Sections, show_ascii \in BOOLEAN :
        /\ writer' = write_bytes_side(writer, side, show_ascii)
        /\ shown' = [op |-> "write_bytes_side", sides |-> <<side>>, flag |-> show_ascii]
    /\ UNCHANGED <<inputVars, contextVars>>

\* the left section ends before the right one starts
WriteBytesSides ==
    /\ shown.op = "new"
    /\ \E left \in Sections, right \in Sections, show_ascii \in BOOLEAN :
        /\ left.ptr + left.len <= right.ptr
        /\ writer' = write_bytes_sides(writer, left, right, show_ascii)
        /\ shown' = [op |-> "write_bytes_sides", sides |-> <<left, right>>,
                     flag |-> show_ascii]
    /\ UNCHANGED <<inputVars, contextVars>>

WriteStrSide ==
    /\ shown.op = "new"
    /\ \E side \in StrSections, cjk \in BOOLEAN :
        /\ writer' = write_str_side(writer, side, cjk)
        /\ shown' = [op |-> "write_str_side", sides |-> <<side>>, flag |-> cjk]
    /\ UNCHANGED <<inputVars, contextVars>>

WriteStrSides ==
    /\ shown.op = "new"
    /\ \E left \in StrSections, right \in StrSections, cjk \in BOOLEAN :
        /\ left.ptr + left.len <= right.ptr
        /\ writer' = write_str_sides(writer, left, right, cjk)
        /\ shown' = [op |-> "write_str_sides", sides |-> <<left, right>>, flag |-> cjk]
    /\ UNCHANGED <<inputVars, contextVars>>

---------------------------------------------------------------------------
(* Specifications *)

\* Input over small buffers: two allocations with the same content, B right
\* after A or one byte further, and the caller holding
\* dangerous::input(&buffer[from..to]) of one of them
InitInput ==
    /\ data \in SeqsUpTo(InputBytes, MaxLen)
    /\ addrA = 16
    /\ addrB \in {addrA + Len(data), addrA + Len(data) + 1}
    /\ \E which \in {"A", "B"}, from \in 0..Len(data), to \in 0..Len(data) :
        /\ from <= to
        /\ inp = input(SubSlice(Buffer(which), from, to))
        /\ owner = which
    /\ res = Outcome("input", inp, NoRoutine, NoOut, NoLoc)
    /\ ContextIdle
    /\ RenderIdle

NextInput ==
    \/ Bound /\ UNCHANGED <<contextVars, renderVars>>
    \/ Clone /\ UNCHANGED <<contextVars, renderVars>>
    \/ Locate /\ UNCHANGED <<contextVars, renderVars>>
    \/ ReadAll /\ UNCHANGED <<contextVars, renderVars>>
    \/ ReadPartial /\ UNCHANGED <<contextVars, renderVars>>
    \/ ReadInfallible /\ UNCHANGED <<contextVars, renderVars>>
    \/ ToDangerousNonEmpty /\ UNCHANGED <<contextVars, renderVars>>
    \/ ToDangerousStr /\ UNCHANGED <<contextVars, renderVars>>
    \/ ToDangerousNonEmptyStr /\ UNCHANGED <<contextVars, renderVars>>

SpecInput == InitInput /\ [][NextInput]_vars

\* decoding of whole buffers drawn from the UTF-8 alphabet
InitUtf8 ==
    /\ data \in SeqsUpTo(Utf8Bytes, MaxStrLen)
    /\ addrA = 16
    /\ addrB = addrA + Len(data) + 1
    /\ inp = input(bufferA)
    /\ owner = "A"
    /\ res = Outcome("input", inp, NoRoutine, NoOut, NoLoc)
    /\ ContextIdle
    /\ RenderIdle

NextUtf8 ==
    \/ ToDangerousStr /\ UNCHANGED <<contextVars, renderVars>>
    \/ ToDangerousNonEmptyStr /\ UNCHANGED <<contextVars, renderVars>>

SpecUtf8 == InitUtf8 /\ [][NextUtf8]_vars

\* a context stack of either policy, built and walked
InitContext ==
    /\ InputIdle
    /\ \E context \in Roots :
        /\ rootStack = RootContextStack_from_root(context)
        /\ fullStack = FullContextStack_from_root(context)
        /\ calls = [root |-> context, pushed |-> <<>>]
    /\ walked = NoWalk
    /\ RenderIdle

NextContext ==
    \/ FromRoot /\ UNCHANGED <<inputVars, renderVars>>
    \/ Push /\ UNCHANGED <<inputVars, renderVars>>
    \/ WalkRoot /\ UNCHANGED <<inputVars, renderVars>>
    \/ WalkFull /\ UNCHANGED <<inputVars, renderVars>>

SpecContext == InitContext /\ [][NextContext]_vars

\* one line of a small text rendered by a writer made with
\* InputWriter::new(w, full, span, underline), the span none or any slice of
\* the buffer
InitRender ==
    /\ data \in TextsUpTo(MaxRenderLen)
    /\ addrA = 16
    /\ addrB = addrA + Len(data) + 1
    /\ inp = input(bufferA)
    /\ owner = "A"
    /\ res = Outcome("input", inp, NoRoutine, NoOut, NoLoc)
    /\ ContextIdle
    /\ \E from \in 0..Len(data), to \in 0..Len(data), highlighted \in BOOLEAN,
          underline \in BOOLEAN :
        /\ from <= to
        /\ ~highlighted => from = 0 /\ to = 0
        /\ writer = InputWriter_new(<<>>, bufferA,
                        IF highlighted THEN Some(SubSlice(bufferA, from, to)) ELSE None,
                        underline)
    /\ shown = NoCall

NextRender ==
    \/ WriteBytesSide
    \/ WriteBytesSides
    \/ WriteStrSide
    \/ WriteStrSides

SpecRender == InitRender /\ [][NextRender]_vars

---------------------------------------------------------------------------
(* Properties of reading, checked under SpecInput *)

\* what a routine does on an Input of its own, whatever wraps it
RoutineSucceeds(self, f) == ~f.fail /\ f.take <= len(self)
RoutineFails(self, f) == f.fail \/ f.take > len(self)

\* C1: when the routine succeeds after consuming only a strict prefix,
\* read_all returns ExpectedLength with min = 0, max = Some(0), span = exactly
\* the unconsumed trailing bytes and input = the original Input; read_all
\* returns Ok only when the routine succeeded and consumed everything.
ReadAllRejectsTrailingInput ==
    res.op = "read_all" =>
        LET k == res.f.take
            n == len(res.self)
        IN  /\ (~res.f.fail /\ k < n) =>
                /\ res.out.tag = "Err"
                /\ res.out.err[1].kind = "ExpectedLength"
                /\ res.out.err[1].min = 0
                /\ res.out.err[1].max = Some(0)
                /\ res.out.err[1].span = Slice(res.self.bytes.ptr + k, n - k)
                /\ BytesOf(res.out.err[1].span) = SubSeq(BytesOf(res.self.bytes), k + 1, n)
                /\ res.out.err[1].input = res.self
                /\ res.out.err[1].context = ExpectedContext("read all", "no trailing input")
            /\ res.out.tag = "Ok" => (~res.f.fail /\ k = n)

\* read_all was given a routine that consumed a non-empty strict prefix
ReadAllLeftTrailingInput ==
    /\ res.op = "read_all"
    /\ ~res.f.fail
    /\ res.f.take > 0
    /\ res.f.take < len(res.self)
    /\ res.out.tag = "Err"

\* C2: when the routine fails, read_all and read_partial return the routine's
\* own error (kind, min, max, span, input and root context unchanged) with the
\* operation's frame attached: never Ok, never the "no trailing input" error.
RoutineErrorPropagates ==
    (res.op \in {"read_all", "read_partial"} /\ RoutineFails(res.self, res.f)) =>
        /\ res.out.tag = "Err"
        /\ res.out.err[1].context.expected /= Some("no trailing input")
        /\ res.out.err[1].input = res.self
        /\ IF res.f.take > len(res.self)
           THEN /\ res.out.err[1].kind = "ExpectedLength"
                /\ res.out.err[1].min = res.f.take
                /\ res.out.err[1].max = None
                /\ res.out.err[1].span = res.self.bytes
                /\ res.out.err[1].context = ExpectedContext("take", "enough input")
           ELSE /\ res.out.err[1].kind = "ExpectedValid"
                /\ res.out.err[1].span = Slice(res.self.bytes.ptr, res.f.take)
                /\ res.out.err[1].context = ExpectedContext("validate", "valid value")
                /\ res.out.err[1].retry_requirement = None
        /\ res.out.err[1].frames =
              <<OperationContext(IF res.op = "read_all" THEN "read all" ELSE "read partial")>>

\* read_all was given a routine that tried to read one byte more than a
\* non-empty input holds
ReadAllRoutineOverran ==
    /\ res.op = "read_all"
    /\ len(res.self) > 0
    /\ res.f.take = len(res.self) + 1
    /\ res.out.tag = "Err"
    /\ res.out.err[1].kind = "ExpectedLength"

\* C3: when the routine succeeds after consuming k <= n bytes, read_partial
\* and read_infallible return Ok with a leftover Input that is the unconsumed
\* suffix: within the original, at span k..n of it, and the consumed prefix
\* followed by the leftover is the original bytes.
ReadPartialReturnsUnconsumedSuffix ==
    (res.op \in {"read_partial", "read_infallible"} /\ RoutineSucceeds(res.self, res.f)) =>
        /\ res.out.tag = "Ok"
        /\ res.out.rest /= None
        /\ is_within(res.out.rest[1], res.self)
        /\ span_of(res.out.rest[1], res.self) =
              Some([start |-> res.f.take, end |-> len(res.self)])
        /\ res.out.value[1].len = res.f.take
        /\ BytesOf(res.out.value[1]) \o BytesOf(res.out.rest[1].bytes)
              = BytesOf(res.self.bytes)

\* read_partial consumed a non-empty strict prefix and returned the rest
ReadPartialLeftTrailingInput ==
    /\ res.op = "read_partial"
    /\ ~res.f.fail
    /\ res.f.take > 0
    /\ res.f.take < len(res.self)
    /\ res.out.tag = "Ok"
    /\ len(res.out.rest[1]) > 0

\* C4: the Input over buffer[from..to] is within the Input over the buffer,
\* span_of is exactly Some(from..to), non_empty_span_of is the same when
\* from < to and None when from = to, and span_of is None whenever is_within
\* is false.
SpanOfReturnsSliceOffsets ==
    res.op = "span_of" =>
        /\ \A which \in {"A", "B"}, from \in 0..Len(data), to \in 0..Len(data) :
              ( /\ from <= to
                /\ res.loc.parentOwner = which
                /\ res.self.bytes = SubSlice(Buffer(which), from, to) ) =>
                  /\ res.loc.within
                  /\ res.loc.span = Some([start |-> from, end |-> to])
                  /\ res.loc.non_empty_span =
                        IF from < to THEN Some([start |-> from, end |-> to]) ELSE None
        /\ ~res.loc.within => res.loc.span = None

\* span_of was asked for the empty slice at the very end of its own buffer
SpanOfEmptySliceAtEnd ==
    /\ res.op = "span_of"
    /\ Len(data) > 0
    /\ owner = res.loc.parentOwner
    /\ res.self.bytes = SubSlice(Buffer(owner), Len(data), Len(data))
    /\ res.loc.span = Some([start |-> Len(data), end |-> Len(data)])
    /\ res.loc.non_empty_span = None

\* C5 as stated: no slice of one of two distinct (non-empty) buffers with the
\* same content is within the other buffer, and its span_of the other is
\* None.
SliceNeverWithinOtherBuffer ==
    (res.op = "span_of" /\ Len(data) > 0 /\ owner /= res.loc.parentOwner) =>
        /\ ~res.loc.within
        /\ res.loc.span = None

\* C5 as amended: of two distinct buffers with the same content, no
\* non-empty slice of one is within the other, and an empty slice of one is
\* within the other exactly when its address is the start or the end address
\* of the other; span_of the other is None unless the slice is within it, and
\* non_empty_span_of the other is always None.
SliceWithinOtherBufferOnlyAtItsEnds ==
    (res.op = "span_of" /\ owner /= res.loc.parentOwner) =>
        LET parent == as_dangerous(res.loc.parent[1])
        IN  /\ len(res.self) > 0 => ~res.loc.within
            /\ res.loc.within <=>
                  /\ len(res.self) = 0
                  /\ res.self.bytes.ptr \in {parent.ptr, parent.ptr + parent.len}
            /\ ~res.loc.within => res.loc.span = None
            /\ res.loc.non_empty_span = None

\* span_of was asked for a non-empty slice of one buffer against the other
\* buffer, which starts where the first ends
SpanOfSliceOfOtherBuffer ==
    /\ res.op = "span_of"
    /\ owner = "B"
    /\ res.loc.parentOwner = "A"
    /\ addrB = addrA + Len(data)
    /\ len(res.self) > 0
    /\ ~res.loc.within

\* C8: bound() returns the same bytes with the flag set, clone returns an
\* equal Input, and every operation applied to a bound Input leaves the
\* caller with a bound Input, returns only bound Inputs and returns only
\* errors that carry a bound Input and have no retry requirement.
BoundStep ==
    /\ res'.op = "bound" => (inp'.bound /\ inp'.bytes = inp.bytes)
    /\ res'.op = "clone" => inp' = inp
    /\ inp.bound =>
        /\ inp'.bound
        /\ res'.out.rest /= None => res'.out.rest[1].bound
        /\ res'.out.err /= None =>
            /\ res'.out.err[1].input.bound
            /\ is_fatal(res'.out.err[1])

BoundOnlyEscalates == [][BoundStep]_vars

\* a routine asked a bound Input for one byte more than it holds
BoundInputOverrun ==
    /\ res.op = "read_partial"
    /\ res.self.bound
    /\ len(res.self) >= 2
    /\ res.f.take = len(res.self) + 1
    /\ res.out.tag = "Err"
    /\ res.out.err[1].kind = "ExpectedLength"
    /\ is_fatal(res.out.err[1])

---------------------------------------------------------------------------
(* UTF-8 as the encoding of Unicode scalar values, against which decoding   *)
(* is checked                                                              *)

\* s is the shortest encoding of one scalar value: one to four bytes, the
\* first announcing the length, the others 10xxxxxx, the value neither
\* encodable in fewer bytes, nor a surrogate, nor above U+10FFFF
IsEncodedScalar(s) ==
    \/ Len(s) = 1 /\ s[1] < 128
    \/ /\ Len(s) = 2
       /\ s[1] >= 192 /\ s[1] <= 223
       /\ IsContinuation(s[2])
       /\ (s[1] - 192) * 64 + (s[2] - 128) >= 128
    \/ /\ Len(s) = 3
       /\ s[1] >= 224 /\ s[1] <= 239
       /\ IsContinuation(s[2]) /\ IsContinuation(s[3])
       /\ LET cp == (s[1] - 224) * 4096 + (s[2] - 128) * 64 + (s[3] - 128)
          IN  cp >= 2048 /\ ~(cp >= 55296 /\ cp <= 57343)
    \/ /\ Len(s) = 4
       /\ s[1] >= 240 /\ s[1] <= 247
       /\ IsContinuation(s[2]) /\ IsContinuation(s[3]) /\ IsContinuation(s[4])
       /\ LET cp == (s[1] - 240) * 262144 + (s[2] - 128) * 4096
                        + (s[3] - 128) * 64 + (s[4] - 128)
          IN  cp >= 65536 /\ cp <= 1114111

\* v is a sequence of encoded scalar values
RECURSIVE WellFormed(_)
WellFormed(v) ==
    \/ v = <<>>
    \/ \E k \in 1..4 :
          /\ k <= Len(v)
          /\ IsEncodedScalar(SubSeq(v, 1, k))
          /\ WellFormed(SubSeq(v, k + 1, Len(v)))

\* the length of the longest well-formed prefix of v
ValidPrefixLen(v) ==
    CHOOSE p \in 0..Len(v) :
        /\ WellFormed(SubSeq(v, 1, p))
        /\ \A q \in (p + 1)..Len(v) : ~WellFormed(SubSeq(v, 1, q))

\* continuation bytes at the ends of the ranges a second byte may be held to
ContinuationSamples == {128, 143, 144, 159, 160, 191}

\* the ways one, two or three continuation bytes may follow
Completions == SeqsUpTo(ContinuationSamples, 3) \ {<<>>}

\* t is the start of an encoded scalar value that k more bytes complete
CompletedBy(t, k) ==
    \E x \in Completions : Len(x) = k /\ IsEncodedScalar(t \o x)

\* t is a code point cut short
IsCutShort(t) == t /= <<>> /\ \E k \in 1..3 : Len(t) + k <= 4 /\ CompletedBy(t, k)

\* the number of continuation bytes a cut-short code point still requires
StillRequired(t) == CHOOSE k \in 1..3 : CompletedBy(t, k)

\* the length of the longest start of t that begins an encoded scalar value;
\* 1 when no byte of t begins one
InvalidLen(t) ==
    LET starts == {k \in 1..Len(t) : IsCutShort(SubSeq(t, 1, k))}
    IN  IF starts = {} THEN 1 ELSE CHOOSE k \in starts : \A j \in starts : j <= k

\* the bytes after the longest well-formed prefix
Undecoded(v) == SubSeq(v, ValidPrefixLen(v) + 1, Len(v))

---------------------------------------------------------------------------
(* Properties of decoding, checked under SpecUtf8 *)

\* C6 as stated: for valid UTF-8 followed by a code point cut short,
\* to_dangerous_str returns ExpectedLength whose min is the number of
\* continuation bytes still required, max = None, span = the undecoded tail.
CutShortMinIsBytesStillRequired ==
    LET v == BytesOf(res.self.bytes)
    IN  (res.op = "to_dangerous_str" /\ ~WellFormed(v) /\ IsCutShort(Undecoded(v))) =>
            /\ res.out.tag = "Err"
            /\ res.out.err[1].kind = "ExpectedLength"
            /\ res.out.err[1].min = StillRequired(Undecoded(v))
            /\ res.out.err[1].max = None
            /\ res.out.err[1].span =
                  Slice(res.self.bytes.ptr + ValidPrefixLen(v), Len(Undecoded(v)))

\* C6 as amended: for valid UTF-8 followed by a code point cut short,
\* to_dangerous_str returns ExpectedLength whose min is the full encoded
\* length of that code point (the bytes present plus the continuation bytes
\* still required); max = None, span = the undecoded tail.
CutShortMinIsCodePointLength ==
    LET v == BytesOf(res.self.bytes)
    IN  (res.op = "to_dangerous_str" /\ ~WellFormed(v) /\ IsCutShort(Undecoded(v))) =>
            /\ res.out.tag = "Err"
            /\ res.out.err[1].kind = "ExpectedLength"
            /\ res.out.err[1].min = Len(Undecoded(v)) + StillRequired(Undecoded(v))
            /\ res.out.err[1].max = None
            /\ res.out.err[1].span =
                  Slice(res.self.bytes.ptr + ValidPrefixLen(v), Len(Undecoded(v)))

\* to_dangerous_str met, after some valid text, two bytes of a longer code point
CutShortAfterValidText ==
    /\ res.op = "to_dangerous_str"
    /\ ValidPrefixLen(BytesOf(res.self.bytes)) > 0
    /\ Len(Undecoded(BytesOf(res.self.bytes))) = 2
    /\ res.out.tag = "Err"
    /\ res.out.err[1].kind = "ExpectedLength"

\* C7: to_dangerous_str returns the input's own bytes for well-formed UTF-8,
\* ExpectedLength for well-formed UTF-8 followed by a code point cut short,
\* and otherwise ExpectedValid with span = the invalid bytes right after the
\* longest valid prefix and no retry requirement; to_dangerous_non_empty_str
\* differs only for the empty input: ExpectedLength with min = 1, max = None.
DecodingIsClassified ==
    LET v == BytesOf(res.self.bytes)
    IN  res.op \in {"to_dangerous_str", "to_dangerous_non_empty_str"} =>
            IF res.op = "to_dangerous_non_empty_str" /\ v = <<>>
            THEN /\ res.out.tag = "Err"
                 /\ res.out.err[1].kind = "ExpectedLength"
                 /\ res.out.err[1].min = 1
                 /\ res.out.err[1].max = None
                 /\ res.out.err[1].span = res.self.bytes
            ELSE IF WellFormed(v)
            THEN /\ res.out.tag = "Ok"
                 /\ res.out.value[1] = res.self.bytes
                 /\ BytesOf(res.out.value[1]) = v
            ELSE IF IsCutShort(Undecoded(v))
            THEN /\ res.out.tag = "Err"
                 /\ res.out.err[1].kind = "ExpectedLength"
            ELSE /\ res.out.tag = "Err"
                 /\ res.out.err[1].kind = "ExpectedValid"
                 /\ res.out.err[1].span =
                       Slice(res.self.bytes.ptr + ValidPrefixLen(v),
                             InvalidLen(Undecoded(v)))
                 /\ res.out.err[1].retry_requirement = None
                 /\ to_retry_requirement(res.out.err[1]) = None

\* to_dangerous_str met, after some valid text, an invalid range of more than
\* one byte
InvalidRangeAfterValidText ==
    /\ res.op = "to_dangerous_str"
    /\ ValidPrefixLen(BytesOf(res.self.bytes)) > 0
    /\ res.out.tag = "Err"
    /\ res.out.err[1].kind = "ExpectedValid"
    /\ res.out.err[1].span.len > 1

---------------------------------------------------------------------------
(* Properties of the context stacks, checked under SpecContext *)

FullWalkVisitsNewestFirst ==
    LET k == Len(calls.pushed)
    IN  (walked.policy = "full" /\ walked.f.stopAt \notin 1..(k + 1)) =>
            /\ Len(walked.visits) = k + 1
            /\ \A i \in 1..k : walked.visits[i] = <<i, calls.pushed[k - i + 1]>>
            /\ walked.visits[k + 1] = <<k + 1, calls.root>>

\* a Full stack was walked to the end after pushes of two different frames
FullWalkedAfterPushes ==
    /\ walked.policy = "full"
    /\ walked.f.stopAt = 0
    /\ Len(calls.pushed) >= 2
    /\ calls.pushed[1] /= calls.pushed[2]
    /\ walked.ret

\* C11: FullContextStack::walk returns true if and only if every pushed frame
\* and the root were visited; when the visitor returns false at some frame,
\* walk makes no further call and returns false.
FullWalkReturnsWhetherAllVisited ==
    LET k == Len(calls.pushed)
    IN  walked.policy = "full" =>
            /\ walked.ret <=> (Len(walked.visits) = k + 1)
            /\ walked.f.stopAt \in 1..(k + 1) =>
                  /\ Len(walked.visits) = walked.f.stopAt
                  /\ ~walked.ret

---------------------------------------------------------------------------
(* Properties of the renderer, checked under SpecRender *)

BytesRendered == shown.op \in {"write_bytes_side", "write_bytes_sides"}
StrRendered == shown.op \in {"write_str_side", "write_str_sides"}
SidesRendered == shown.op \in {"write_bytes_sides", "write_str_sides"}

\* the line the same call writes in normal mode
NormalLine ==
    LET plain == InputWriter_new(<<>>, writer.full, writer.span, FALSE)
    IN  IF shown.op = "write_bytes_side"
        THEN write_bytes_side(plain, shown.sides[1], shown.flag).w
        ELSE IF shown.op = "write_bytes_sides"
        THEN write_bytes_sides(plain, shown.sides[1], shown.sides[2], shown.flag).w
        ELSE IF shown.op = "write_str_side"
        THEN write_str_side(plain, shown.sides[1], shown.flag).w
        ELSE write_str_sides(plain, shown.sides[1], shown.sides[2], shown.flag).w

\* an address lies inside the highlighted span
InSpan(address) ==
    /\ writer.span /= None
    /\ address >= writer.span[1].ptr
    /\ address < writer.span[1].ptr + writer.span[1].len

\* columns of a byte: 3 for a quoted printable ASCII byte, 2 for a hex byte
ByteWidth(byte, show_ascii) == IF show_ascii /\ is_ascii_graphic(byte) THEN 3 ELSE 2

\* columns of the first k bytes of a section, each with the separator after it
RECURSIVE BytesWidth(_, _, _)
BytesWidth(section, k, show_ascii) ==
    IF k = 0 THEN 0
    ELSE BytesWidth(section, k - 1, show_ascii)
            + ByteWidth(MemAt(section.ptr + k - 1), show_ascii) + 1

\* columns before the first byte or scalar of a section: the delimiter and,
\* if the section does not start the buffer, the marker and a separator
OpenWidth(section) == IF section.ptr > writer.full.ptr THEN 4 ELSE 1

\* columns before the first byte of the i-th section of a byte line; the
\* middle of a two-side line is separator, marker, separator
BytesStart(i) ==
    IF i = 1 THEN OpenWidth(shown.sides[1])
    ELSE OpenWidth(shown.sides[1])
            + (IF shown.sides[1].len = 0 THEN 0
               ELSE BytesWidth(shown.sides[1], shown.sides[1].len, shown.flag) - 1)
            + 4

Columns(from, width) == (from + 1)..(from + width)

\* C12: the underline line of a byte render is as long as the normal line,
\* the columns of each byte are '^' exactly when the address of that byte lies
\* inside the highlighted span and blank otherwise, and the separator before
\* a byte is blank.
UnderlinedBytesAreThoseInSpan ==
    (BytesRendered /\ writer.underline /\ writer.span /= None) =>
        /\ Len(writer.w) = Len(NormalLine)
        /\ \A i \in 1..Len(shown.sides) :
            LET section == shown.sides[i]
            IN  \A k \in 0..(section.len - 1) :
                    LET from == BytesStart(i) + BytesWidth(section, k, shown.flag)
                        width == ByteWidth(MemAt(section.ptr + k), shown.flag)
                        mark == IF InSpan(section.ptr + k) THEN 94 ELSE 32
                    IN  /\ \A column \in Columns(from, width) : writer.w[column] = mark
                        /\ k > 0 => writer.w[from] = 32

\* columns of the scalars of a string section from a byte offset on
RECURSIVE StrWidth(_, _, _)
StrWidth(section, offset, cjk) ==
    IF offset >= section.len THEN 0
    ELSE LET c == chars_next(section, offset)
         IN  Element_unicode(c, cjk).display_cost
                + StrWidth(section, offset + len_utf8(c), cjk)

\* columns of the bytes or scalars of the i-th section, separators included
BodyWidth(i) ==
    LET section == shown.sides[i]
    IN  IF StrRendered THEN StrWidth(section, 0, shown.flag)
        ELSE IF section.len = 0 THEN 0
        ELSE BytesWidth(section, section.len, shown.flag) - 1

\* columns before the i-th body; the middle of a two-side string line is
\* delimiter, separator, marker, separator, delimiter
BodyStart(i) ==
    IF i = 1 THEN OpenWidth(shown.sides[1])
    ELSE OpenWidth(shown.sides[1]) + BodyWidth(1) + (IF StrRendered THEN 6 ELSE 4)

FirstSide == shown.sides[1]
LastSide == shown.sides[Len(shown.sides)]
EndOf(s) == s.ptr + s.len

\* the delimiter columns of the line, each with the address of the section
\* boundary it stands for and whether an elision marker stands at that side
Delimiters ==
    LET before == FirstSide.ptr > writer.full.ptr
        after == EndOf(LastSide) < EndOf(writer.full)
        opening == [column |-> IF StrRendered /\ before THEN 4 ELSE 1,
                    boundary |-> FirstSide.ptr, elided |-> before]
        closing == [column |-> IF StrRendered /\ after THEN Len(writer.w) - 3
                               ELSE Len(writer.w),
                    boundary |-> EndOf(LastSide), elided |-> after]
        inner == IF shown.op = "write_str_sides"
                 THEN {[column |-> BodyStart(1) + BodyWidth(1) + 1,
                        boundary |-> EndOf(FirstSide), elided |-> TRUE],
                       [column |-> BodyStart(2),
                        boundary |-> LastSide.ptr, elided |-> TRUE]}
                 ELSE {}
    IN  {opening, closing} \cup inner

ClosingColumn ==
    IF StrRendered /\ EndOf(LastSide) < EndOf(writer.full) THEN Len(writer.w) - 3
    ELSE Len(writer.w)

\* the span is zero-width and sits at the end of the buffer
SpanPointsToBufferEnd ==
    /\ writer.span /= None
    /\ writer.span[1].len = 0
    /\ writer.span[1].ptr = EndOf(writer.full)

\* C13: in underline mode a delimiter column is '^' only if the span is
\* zero-width, sits exactly at the section boundary of that delimiter and no
\* elision marker stands at that side, and is blank otherwise; a zero-width
\* span at the end of the buffer marks the closing delimiter of a section that
\* ends there and no byte or scalar column.
DelimiterMarksPointSpan ==
    (shown.op /= "new" /\ writer.underline) =>
        /\ \A d \in Delimiters :
            /\ writer.w[d.column] \in {94, 32}
            /\ writer.w[d.column] = 94 =>
                  /\ writer.span /= None
                  /\ writer.span[1].len = 0
                  /\ writer.span[1].ptr = d.boundary
                  /\ ~d.elided
        /\ SpanPointsToBufferEnd =>
            /\ EndOf(LastSide) = EndOf(writer.full) => writer.w[ClosingColumn] = 94
            /\ \A i \in 1..Len(shown.sides) :
                  \A column \in Columns(BodyStart(i), BodyWidth(i)) :
                      writer.w[column] = 32

\* a text rendered to its end in underline mode with the span pointing at the
\* end of the buffer: the closing delimiter is marked
PointSpanAtBufferEndRendered ==
    /\ shown.op /= "new"
    /\ writer.underline
    /\ SpanPointsToBufferEnd
    /\ LastSide.len > 0
    /\ EndOf(LastSide) = EndOf(writer.full)
    /\ writer.w[Len(writer.w)] = 94

\* some byte of the n bytes at an address lies inside the highlighted span
Intersects(address, n) == \E k \in 0..(n - 1) : InSpan(address + k)

\* C14: in a two-side render in underline mode that hides bytes between its
\* two sections, neither of them empty, the two columns of the middle marker are '^' if and only if the
\* span, when it has bytes, overlaps the hidden region between the end of the
\* left section and the start of the right section; a span inside the left or
\* inside the right section leaves them blank.
MiddleMarkerMarksHiddenSpan ==
    (/\ SidesRendered
     /\ writer.underline
     /\ FirstSide.len > 0
     /\ LastSide.len > 0
     /\ EndOf(FirstSide) < LastSide.ptr
     /\ (writer.span /= None => writer.span[1].len > 0)) =>
        LET from == BodyStart(1) + BodyWidth(1) + (IF StrRendered THEN 2 ELSE 1)
            overlaps == /\ writer.span /= None
                        /\ writer.span[1].ptr < LastSide.ptr
                        /\ EndOf(writer.span[1]) > EndOf(FirstSide)
        IN  \A column \in Columns(from, 2) :
                writer.w[column] = IF overlaps THEN 94 ELSE 32

\* byte offsets of a string section at which a scalar starts
ScalarStarts(section) ==
    {offset \in 0..(section.len - 1) :
        is_char_boundary(section.ptr - writer.full.ptr + offset)}

\* C15: in underline mode write_str writes blanks without a test per scalar
\* only if no byte of the section lies inside the span, and in every string
\* render with a span that has bytes the columns of each scalar are '^'
\* exactly when some byte of the scalar lies inside the span and blank
\* otherwise.
UnderlinedScalarsAreThoseInSpan ==
    (/\ StrRendered
     /\ writer.underline
     /\ writer.span /= None
     /\ writer.span[1].len > 0) =>
        \A i \in 1..Len(shown.sides) :
            LET section == shown.sides[i]
            IN  /\ ~is_span_start_within_section(section, writer.span) =>
                      ~Intersects(section.ptr, section.len)
                /\ \A offset \in ScalarStarts(section) :
                    LET c == chars_next(section, offset)
                        from == BodyStart(i) + StrWidth(section, 0, shown.flag)
                                    - StrWidth(section, offset, shown.flag)
                        width == Element_unicode(c, shown.flag).display_cost
                        mark == IF Intersects(section.ptr + offset, len_utf8(c))
                                THEN 94 ELSE 32
                    IN  \A column \in Columns(from, width) : writer.w[column] = mark

====
